---- MODULE Spec2Model ----
(***************************************************************************)
(* CutoffList (src/src/lib.rs): a list of entries with stable handles,     *)
(* backed by index_list::IndexList, in which every entry carries the       *)
(* number of cutoff positions at or before its rank and every cutoff       *)
(* caches the handle of the first entry at or past it.                     *)
(*                                                                         *)
(* An Index is a natural number: 0 is Index::new() (the empty handle) and  *)
(* i >= 1 names slot i of the backing arena.  An Option<X> is a sequence   *)
(* of length 0 (None) or 1 (Some).                                         *)
(***************************************************************************)
EXTENDS Integers, Sequences, FiniteSets, TLC

\* ---------------------------------------------------------------- bounds
MaxLen == 3           \* most live elements at any time
MaxCutoffs == 3       \* most cutoff positions handed to new
MaxCutoffVal == 2     \* largest cutoff position handed to new

Values == {"a", "b"}

None == << >>
Some(x) == << x >>
NoIndex == 0

\* ------------------------------------------------- index_list::IndexList
\* The arena behind self.list: per slot the next/prev links and the
\* element (None in a free slot), the ends of the used list and of the
\* free list, and the element count.  Used and free slots are both
\* doubly linked through the same next/prev fields.

list_new ==
    [next |-> << >>, prev |-> << >>, elems |-> << >>,
     head |-> NoIndex, tail |-> NoIndex,
     fhead |-> NoIndex, ftail |-> NoIndex, size |-> 0]

list_len(l) == l.size

list_is_empty(l) == l.size = 0

list_first_index(l) == l.head

list_last_index(l) == l.tail

list_get(l, i) ==
    IF i \in 1..Len(l.elems) THEN l.elems[i] ELSE None

list_is_index_used(l, i) == list_get(l, i) # None

\* next_index(None) is the first index; a slot that is allocated answers
\* with its link whether it is used or free; any other index gives None.
list_next_index(l, i) ==
    IF i = NoIndex THEN l.head
    ELSE IF i \in 1..Len(l.next) THEN l.next[i] ELSE NoIndex

list_prev_index(l, i) ==
    IF i = NoIndex THEN l.tail
    ELSE IF i \in 1..Len(l.prev) THEN l.prev[i] ELSE NoIndex

list_set_next(l, i, n) ==
    IF i = NoIndex THEN l ELSE [l EXCEPT !.next[i] = n]

list_set_prev(l, i, p) ==
    IF i = NoIndex THEN l ELSE [l EXCEPT !.prev[i] = p]

list_linkin_first(l, this) ==
    LET l1 == list_set_prev(list_set_next(l, this, l.head), this, NoIndex)
        l2 == list_set_prev(l1, l.head, this)
    IN [l2 EXCEPT !.head = this,
                  !.tail = IF l.head = NoIndex THEN this ELSE l.tail]

list_linkin_last(l, this) ==
    LET l1 == list_set_next(list_set_prev(l, this, l.tail), this, NoIndex)
        l2 == list_set_next(l1, l.tail, this)
    IN [l2 EXCEPT !.tail = this,
                  !.head = IF l.tail = NoIndex THEN this ELSE l.head]

list_linkout_used(l, this) ==
    LET n == l.next[this]
        p == l.prev[this]
        l1 == list_set_prev(list_set_next(l, p, n), n, p)
        l2 == list_set_prev(list_set_next(l1, this, NoIndex), this, NoIndex)
    IN [l2 EXCEPT !.head = IF p = NoIndex THEN n ELSE l.head,
                  !.tail = IF n = NoIndex THEN p ELSE l.tail]

list_linkin_free(l, this) ==
    LET l1 == list_set_next(list_set_prev(l, this, l.ftail), this, NoIndex)
        l2 == list_set_next(l1, l.ftail, this)
    IN [l2 EXCEPT !.ftail = this,
                  !.fhead = IF l.ftail = NoIndex THEN this ELSE l.fhead]

list_linkout_free(l, this) ==
    LET n == l.next[this]
        p == l.prev[this]
        l1 == list_set_prev(list_set_next(l, p, n), n, p)
        l2 == list_set_prev(list_set_next(l1, this, NoIndex), this, NoIndex)
    IN [l2 EXCEPT !.fhead = IF p = NoIndex THEN n ELSE l.fhead,
                  !.ftail = IF n = NoIndex THEN p ELSE l.ftail]

\* A new element takes the slot at the head of the free list when there is
\* one and a fresh slot at the end of the arena otherwise.
list_new_node(l, e) ==
    IF l.fhead # NoIndex
    THEN [list |-> [list_linkout_free(l, l.fhead)
                        EXCEPT !.elems[l.fhead] = Some(e),
                               !.size = l.size + 1],
          index |-> l.fhead]
    ELSE [list |-> [l EXCEPT !.next = Append(l.next, NoIndex),
                             !.prev = Append(l.prev, NoIndex),
                             !.elems = Append(l.elems, Some(e)),
                             !.size = l.size + 1],
          index |-> Len(l.elems) + 1]

list_insert_first(l, e) ==
    LET r == list_new_node(l, e)
    IN [list |-> list_linkin_first(r.list, r.index), index |-> r.index]

list_insert_last(l, e) ==
    LET r == list_new_node(l, e)
    IN [list |-> list_linkin_last(r.list, r.index), index |-> r.index]

\* remove gives None and changes nothing unless the slot holds an element.
list_remove(l, i) ==
    IF ~list_is_index_used(l, i)
    THEN [list |-> l, elem |-> None]
    ELSE [list |-> list_linkin_free(
                     [list_linkout_used(l, i) EXCEPT !.elems[i] = None,
                                                     !.size = l.size - 1], i),
          elem |-> l.elems[i]]

list_shift_index_to_front(l, i) ==
    IF ~list_is_index_used(l, i)
    THEN [list |-> l, shifted |-> FALSE]
    ELSE [list |-> list_linkin_first(list_linkout_used(l, i), i),
          shifted |-> TRUE]

\* self.list.get_mut(i).unwrap().preceding_cutoffs = c, i a used slot
list_set_preceding_cutoffs(l, i, c) ==
    [l EXCEPT !.elems[i] = Some([l.elems[i][1] EXCEPT !.preceding_cutoffs = c])]

\* ------------------------------------------------------------ CutoffList
\* A CutoffList value is a record self with the three fields of the
\* struct.  A handler gives [self, ret, panic]: the object after the call,
\* the returned value, and whether the call panicked (self is then the
\* object as the panic left it).

Entry(v, c) == [value |-> v, preceding_cutoffs |-> c]

Result(s, r, p) == [self |-> s, ret |-> r, panic |-> p]

\* is_sorted with a strict comparison, which turns coinciding cutoffs away
is_sorted_strict(c) == \A i \in 1..(Len(c) - 1) : c[i] < c[i + 1]

\* slice::is_sorted: every element is <= its successor
is_sorted(c) == \A i \in 1..(Len(c) - 1) : c[i] <= c[i + 1]

\* new with a cache of one entry more than there are cutoffs
new_extra_entry(cutoffs) ==
    IF ~is_sorted(cutoffs)
    THEN Result([cutoff_positions |-> cutoffs, following_ind |-> << >>,
                 list |-> list_new], None, TRUE)
    ELSE Result([cutoff_positions |-> cutoffs,
                 following_ind |-> [q \in 1..(Len(cutoffs) + 1) |-> NoIndex],
                 list |-> list_new], None, FALSE)

new(cutoffs) ==
    IF ~is_sorted(cutoffs)
    THEN Result([cutoff_positions |-> cutoffs, following_ind |-> << >>,
                 list |-> list_new], None, TRUE)
    ELSE Result([cutoff_positions |-> cutoffs,
                 following_ind |-> [q \in 1..Len(cutoffs) |-> NoIndex],
                 list |-> list_new], None, FALSE)

is_empty(self) == list_is_empty(self.list)

\* len as the number of slots of the arena, free ones included
len_of_arena(self) == Len(self.list.elems)

len(self) == list_len(self.list)

RECURSIVE take_while_zero(_, _)
take_while_zero(c, q) ==
    IF q <= Len(c) /\ c[q] = 0 THEN 1 + take_while_zero(c, q + 1) ELSE 0

count_leading_zeros(self) == take_while_zero(self.cutoff_positions, 1)

preceding_cutoffs(self, ind) ==
    LET e == list_get(self.list, ind)
    IN IF e = None THEN None ELSE Some(e[1].preceding_cutoffs)

following_ind_at(self, q) ==
    IF q \in 1..Len(self.following_ind) THEN self.following_ind[q] ELSE NoIndex

get(self, ind) ==
    LET e == list_get(self.list, ind)
    IN IF e = None THEN None ELSE Some(e[1].value)

first_index(self) == list_first_index(self.list)

next_index(self, ind) == list_next_index(self.list, ind)

\* ---- insert_first
\* the second loop of insert_first that moves the cache entries back but
\* leaves the counts of the elements they reach as they were
RECURSIVE insert_first_loop_no_count(_, _, _)
insert_first_loop_no_count(self, q, new_last_pos) ==
    IF q > Len(self.cutoff_positions) THEN Result(self, None, FALSE)
    ELSE
      LET p == self.cutoff_positions[q]
          ind == self.following_ind[q]
      IN IF ind # NoIndex /\ ~(p < new_last_pos) THEN Result(self, None, TRUE)
         ELSE IF ind = NoIndex /\ p # new_last_pos
              THEN Result(self, None, ~(p > new_last_pos))
         ELSE
           LET ind2 == IF ind # NoIndex THEN list_prev_index(self.list, ind)
                       ELSE list_last_index(self.list)
               s1 == [self EXCEPT !.following_ind[q] = ind2]
           IN IF list_get(self.list, ind2) = None THEN Result(s1, None, TRUE)
              ELSE insert_first_loop_no_count(s1, q + 1, new_last_pos)

\* the second loop of insert_first that fills an empty entry at the old
\* length from the front of the list instead of its end
RECURSIVE insert_first_loop_from_front(_, _, _)
insert_first_loop_from_front(self, q, new_last_pos) ==
    IF q > Len(self.cutoff_positions) THEN Result(self, None, FALSE)
    ELSE
      LET p == self.cutoff_positions[q]
          ind == self.following_ind[q]
      IN IF ind # NoIndex /\ ~(p < new_last_pos) THEN Result(self, None, TRUE)
         ELSE IF ind = NoIndex /\ p # new_last_pos
              THEN Result(self, None, ~(p > new_last_pos))
         ELSE
           LET ind2 == IF ind # NoIndex THEN list_prev_index(self.list, ind)
                       ELSE list_first_index(self.list)
               s1 == [self EXCEPT !.following_ind[q] = ind2]
               e == list_get(self.list, ind2)
           IN IF e = None THEN Result(s1, None, TRUE)
              ELSE IF e[1].preceding_cutoffs # q - 1 THEN Result(s1, None, TRUE)
              ELSE insert_first_loop_from_front(
                     [s1 EXCEPT !.list = list_set_preceding_cutoffs(
                                           self.list, ind2, e[1].preceding_cutoffs + 1)],
                     q + 1, new_last_pos)

\* The second loop of insert_first from cutoff q on (q is 1-based, so the
\* code's index of that cutoff is q - 1).
RECURSIVE insert_first_loop(_, _, _)
insert_first_loop(self, q, new_last_pos) ==
    IF q > Len(self.cutoff_positions) THEN Result(self, None, FALSE)
    ELSE
      LET p == self.cutoff_positions[q]
          ind == self.following_ind[q]
      IN IF ind # NoIndex /\ ~(p < new_last_pos) THEN Result(self, None, TRUE)
         ELSE IF ind = NoIndex /\ p # new_last_pos
              THEN Result(self, None, ~(p > new_last_pos))
         ELSE
           LET ind2 == IF ind # NoIndex THEN list_prev_index(self.list, ind)
                       ELSE list_last_index(self.list)
               s1 == [self EXCEPT !.following_ind[q] = ind2]
               e == list_get(self.list, ind2)
           IN IF e = None THEN Result(s1, None, TRUE)
              ELSE IF e[1].preceding_cutoffs # q - 1 THEN Result(s1, None, TRUE)
              ELSE insert_first_loop(
                     [s1 EXCEPT !.list = list_set_preceding_cutoffs(
                                           self.list, ind2, e[1].preceding_cutoffs + 1)],
                     q + 1, new_last_pos)

insert_first(self, v) ==
    LET new_last_pos == list_len(self.list)
        lz == count_leading_zeros(self)
        r == list_insert_first(self.list, Entry(v, lz))
        new_index == r.index
        s1 == [self EXCEPT !.list = r.list,
                           !.following_ind =
                              [q \in 1..Len(self.following_ind) |->
                                 IF q <= lz THEN new_index
                                 ELSE self.following_ind[q]]]
        res == insert_first_loop(s1, lz + 1, new_last_pos)
    IN Result(res.self, IF res.panic THEN None ELSE new_index, res.panic)

\* ---- insert_last
\* the counting loop with a cutoff equal to new_pos noted but not counted
RECURSIVE insert_last_count_less(_, _, _, _, _)
insert_last_count_less(c, q, new_pos, count, at_q) ==
    IF q > Len(c) \/ c[q] > new_pos
    THEN [preceding_cutoffs |-> count, at_q |-> at_q]
    ELSE insert_last_count_less(c, q + 1, new_pos,
                                IF c[q] < new_pos THEN count + 1 ELSE count,
                                IF c[q] = new_pos /\ at_q = 0 THEN q ELSE at_q)

\* The counting loop of insert_last: [preceding_cutoffs, at_q], at_q = 0
\* standing for None and q >= 1 for the first cutoff equal to new_pos.
RECURSIVE insert_last_count(_, _, _, _, _)
insert_last_count(c, q, new_pos, count, at_q) ==
    IF q > Len(c) \/ c[q] > new_pos
    THEN [preceding_cutoffs |-> count, at_q |-> at_q]
    ELSE insert_last_count(c, q + 1, new_pos, count + 1,
                           IF c[q] = new_pos /\ at_q = 0 THEN q ELSE at_q)

\* the second loop of insert_last that hands the new handle to every entry
\* from at_q on, whatever its cutoff
RECURSIVE insert_last_loop_all(_, _, _, _)
insert_last_loop_all(self, q, new_pos, new_index) ==
    IF q > Len(self.cutoff_positions) THEN Result(self, None, FALSE)
    ELSE IF self.following_ind[q] # NoIndex THEN Result(self, None, TRUE)
    ELSE insert_last_loop_all([self EXCEPT !.following_ind[q] = new_index],
                              q + 1, new_pos, new_index)

\* The second loop of insert_last from cutoff q on (1-based).
RECURSIVE insert_last_loop(_, _, _, _)
insert_last_loop(self, q, new_pos, new_index) ==
    IF q > Len(self.cutoff_positions) THEN Result(self, None, FALSE)
    ELSE IF self.following_ind[q] # NoIndex THEN Result(self, None, TRUE)
    ELSE IF self.cutoff_positions[q] = new_pos
         THEN insert_last_loop([self EXCEPT !.following_ind[q] = new_index],
                               q + 1, new_pos, new_index)
         ELSE Result(self, None, ~(self.cutoff_positions[q] > new_pos))

insert_last(self, v) ==
    LET new_pos == list_len(self.list)
        cnt == insert_last_count(self.cutoff_positions, 1, new_pos, 0, 0)
        r == list_insert_last(self.list, Entry(v, cnt.preceding_cutoffs))
        new_index == r.index
        s1 == [self EXCEPT !.list = r.list]
        res == IF cnt.at_q = 0 THEN Result(s1, None, FALSE)
               ELSE insert_last_loop(s1, cnt.at_q, new_pos, new_index)
    IN Result(res.self, IF res.panic THEN None ELSE new_index, res.panic)

\* ---- remove
\* the backward scan that leaves the entries on the removed handle
remove_before_skipped(fi, q, index, nxt) == fi

\* the backward scan that stops after the first entry it retargets
remove_before_one(fi, q, index, nxt) ==
    IF q < 1 \/ fi[q] # index THEN fi ELSE [fi EXCEPT ![q] = nxt]

\* before.iter_mut().rev(): cutoffs q, q - 1, .. 1 while the entry is index
RECURSIVE remove_before(_, _, _, _)
remove_before(fi, q, index, nxt) ==
    IF q < 1 \/ fi[q] # index THEN fi
    ELSE remove_before([fi EXCEPT ![q] = nxt], q - 1, index, nxt)

\* the forward scan that stops after its first entry
remove_after_once(self, q) ==
    IF q > Len(self.following_ind) \/ self.following_ind[q] = NoIndex
    THEN Result(self, None, FALSE)
    ELSE
      LET ind == self.following_ind[q]
          e == list_get(self.list, ind)
      IN IF e = None \/ e[1].preceding_cutoffs = 0 THEN Result(self, None, TRUE)
         ELSE Result(
                [self EXCEPT !.list = list_set_preceding_cutoffs(
                                        self.list, ind, e[1].preceding_cutoffs - 1),
                             !.following_ind[q] = list_next_index(self.list, ind)],
                None, FALSE)

\* after.iter_mut(): cutoffs q, q + 1, .. until an entry is None.  The
\* decrement of a count that is 0 overflows usize; it is taken as a panic.
RECURSIVE remove_after(_, _)
remove_after(self, q) ==
    IF q > Len(self.following_ind) \/ self.following_ind[q] = NoIndex
    THEN Result(self, None, FALSE)
    ELSE
      LET ind == self.following_ind[q]
          e == list_get(self.list, ind)
      IN IF e = None \/ e[1].preceding_cutoffs = 0 THEN Result(self, None, TRUE)
         ELSE remove_after(
                [self EXCEPT !.list = list_set_preceding_cutoffs(
                                        self.list, ind, e[1].preceding_cutoffs - 1),
                             !.following_ind[q] = list_next_index(self.list, ind)],
                q + 1)

\* remove that goes on with the forward scan, from the first cutoff, when
\* the list had no element at index
remove_unchecked(self, index) ==
    LET nxt == list_next_index(self.list, index)
        r == list_remove(self.list, index)
        c == IF r.elem = None THEN 0 ELSE r.elem[1].preceding_cutoffs
        s1 == [self EXCEPT !.list = r.list]
    IN IF c > Len(self.following_ind) THEN Result(s1, None, TRUE)
       ELSE
         LET s2 == [s1 EXCEPT !.following_ind =
                                remove_before(self.following_ind, c, index, nxt)]
             res == remove_after(s2, c + 1)
         IN Result(res.self,
                   IF res.panic \/ r.elem = None THEN None
                   ELSE Some(r.elem[1].value),
                   res.panic)

remove(self, index) ==
    LET nxt == list_next_index(self.list, index)
        r == list_remove(self.list, index)
    IN IF r.elem = None THEN Result(self, None, FALSE)
       ELSE
         LET gone == r.elem[1]
             c == gone.preceding_cutoffs
             s1 == [self EXCEPT !.list = r.list]
         IN IF c > Len(self.following_ind) THEN Result(s1, None, TRUE)
            ELSE
              LET s2 == [s1 EXCEPT !.following_ind =
                                     remove_before(self.following_ind, c, index, nxt)]
                  res == remove_after(s2, c + 1)
              IN Result(res.self,
                        IF res.panic THEN None ELSE Some(gone.value),
                        res.panic)

\* ---- shift_to_front
\* the second loop run over leading_zeros..=preceding_cutoffs, one cutoff
\* further than the code's leading_zeros..preceding_cutoffs
RECURSIVE shift_to_front_loop_inclusive(_, _, _, _, _)
shift_to_front_loop_inclusive(self, q, last, ind, prev_ind) ==
    IF q > last + 1 THEN Result(self, None, FALSE)
    ELSE IF q > Len(self.following_ind) THEN Result(self, None, TRUE)
    ELSE
      LET cutoff_ind == self.following_ind[q]
      IN IF cutoff_ind # ind /\ cutoff_ind = NoIndex THEN Result(self, None, TRUE)
         ELSE
           LET ind2 == IF cutoff_ind = ind THEN prev_ind
                       ELSE list_prev_index(self.list, cutoff_ind)
               s1 == [self EXCEPT !.following_ind[q] = ind2]
               e == list_get(self.list, ind2)
           IN IF e = None THEN Result(s1, None, TRUE)
              ELSE shift_to_front_loop_inclusive(
                     [s1 EXCEPT !.list = list_set_preceding_cutoffs(
                                           self.list, ind2, e[1].preceding_cutoffs + 1)],
                     q + 1, last, ind, prev_ind)

\* The second loop of shift_to_front over cutoffs q .. last (1-based), ind
\* the moved handle and prev_ind its predecessor before the move.
RECURSIVE shift_to_front_loop(_, _, _, _, _)
shift_to_front_loop(self, q, last, ind, prev_ind) ==
    IF q > last THEN Result(self, None, FALSE)
    ELSE IF q > Len(self.following_ind) THEN Result(self, None, TRUE)
    ELSE
      LET cutoff_ind == self.following_ind[q]
      IN IF cutoff_ind # ind /\ cutoff_ind = NoIndex THEN Result(self, None, TRUE)
         ELSE
           LET ind2 == IF cutoff_ind = ind THEN prev_ind
                       ELSE list_prev_index(self.list, cutoff_ind)
               s1 == [self EXCEPT !.following_ind[q] = ind2]
               e == list_get(self.list, ind2)
           IN IF e = None THEN Result(s1, None, TRUE)
              ELSE shift_to_front_loop(
                     [s1 EXCEPT !.list = list_set_preceding_cutoffs(
                                           self.list, ind2, e[1].preceding_cutoffs + 1)],
                     q + 1, last, ind, prev_ind)

\* shift_to_front as a remove followed by an insert_first of the value
shift_by_reinsert(self, ind) ==
    LET prev_ind == list_prev_index(self.list, ind)
    IN IF prev_ind = NoIndex THEN Result(self, None, FALSE)
       ELSE
         LET r == remove(self, ind)
         IN IF r.panic \/ r.ret = None THEN Result(r.self, None, TRUE)
            ELSE LET r2 == insert_first(r.self, r.ret[1])
                 IN Result(r2.self, None, r2.panic)

shift_to_front(self, ind) ==
    LET prev_ind == list_prev_index(self.list, ind)
    IN IF prev_ind = NoIndex THEN Result(self, None, FALSE)
       ELSE
         LET leading_zeros == count_leading_zeros(self)
             e == list_get(self.list, ind)
         IN IF e = None THEN Result(self, None, TRUE)
            ELSE
              LET old == e[1].preceding_cutoffs
                  l1 == list_set_preceding_cutoffs(self.list, ind, leading_zeros)
                  r == list_shift_index_to_front(l1, ind)
                  s1 == [self EXCEPT !.list = r.list]
              IN IF ~r.shifted THEN Result(s1, None, TRUE)
                 ELSE shift_to_front_loop(
                        [s1 EXCEPT !.following_ind =
                            [q \in 1..Len(self.following_ind) |->
                               IF q <= leading_zeros THEN ind
                               ELSE self.following_ind[q]]],
                        leading_zeros + 1, old, ind, prev_ind)

\* ------------------------------------------------------- loop iterations
\* The number of iterations the loops of a method run from the object self,
\* an iteration that ends in break counted as one; count_leading_zeros is
\* not counted.

\* second loop of insert_first from cutoff q on
RECURSIVE insert_first_loop_iterations(_, _, _)
insert_first_loop_iterations(self, q, new_last_pos) ==
    IF q > Len(self.cutoff_positions) THEN 0
    ELSE IF self.following_ind[q] # NoIndex
            \/ self.cutoff_positions[q] = new_last_pos
         THEN 1 + insert_first_loop_iterations(self, q + 1, new_last_pos)
         ELSE 1

insert_first_iterations(self) ==
    LET lz == count_leading_zeros(self)
    IN lz + insert_first_loop_iterations(self, lz + 1, list_len(self.list))

\* the counting loop of insert_last with the Greater arm going on to the
\* next cutoff instead of leaving the loop
insert_last_count_iterations_no_break(c, q, new_pos) == Len(c) - (q - 1)

\* counting loop of insert_last from cutoff q on
RECURSIVE insert_last_count_iterations(_, _, _)
insert_last_count_iterations(c, q, new_pos) ==
    IF q > Len(c) THEN 0
    ELSE IF c[q] > new_pos THEN 1
    ELSE 1 + insert_last_count_iterations(c, q + 1, new_pos)

\* second loop of insert_last from cutoff q on
RECURSIVE insert_last_loop_iterations(_, _, _)
insert_last_loop_iterations(c, q, new_pos) ==
    IF q > Len(c) THEN 0
    ELSE IF c[q] = new_pos
         THEN 1 + insert_last_loop_iterations(c, q + 1, new_pos)
         ELSE 1

insert_last_iterations(self) ==
    LET new_pos == list_len(self.list)
        c == self.cutoff_positions
        cnt == insert_last_count(c, 1, new_pos, 0, 0)
    IN insert_last_count_iterations(c, 1, new_pos)
       + (IF cnt.at_q = 0 THEN 0
          ELSE insert_last_loop_iterations(c, cnt.at_q, new_pos))

shift_to_front_iterations(self, ind) ==
    LET e == list_get(self.list, ind)
    IN IF list_prev_index(self.list, ind) = NoIndex \/ e = None THEN 0
       ELSE LET leading_zeros == count_leading_zeros(self)
                old == e[1].preceding_cutoffs
            IN leading_zeros
               + (IF old > leading_zeros THEN old - leading_zeros ELSE 0)

\* backward scan of remove from cutoff q down
RECURSIVE remove_before_iterations(_, _, _)
remove_before_iterations(fi, q, index) ==
    IF q < 1 THEN 0
    ELSE IF fi[q] # index THEN 1
    ELSE 1 + remove_before_iterations(fi, q - 1, index)

\* forward scan of remove from cutoff q on
RECURSIVE remove_after_iterations(_, _)
remove_after_iterations(fi, q) ==
    IF q > Len(fi) THEN 0
    ELSE IF fi[q] = NoIndex THEN 1
    ELSE 1 + remove_after_iterations(fi, q + 1)

remove_iterations(self, index) ==
    LET e == list_get(self.list, index)
    IN IF e = None THEN 0
       ELSE remove_before_iterations(self.following_ind,
                                     e[1].preceding_cutoffs, index)
            + remove_after_iterations(self.following_ind,
                                      e[1].preceding_cutoffs + 1)

\* --------------------------------------------------------- state machine
VARIABLES
    cutoff_positions,   \* CutoffList.cutoff_positions
    following_ind,      \* CutoffList.following_ind
    list,               \* CutoffList.list
    panicked,           \* a call has panicked; no further call is made
    input,              \* the cutoffs that were handed to new
    op,                 \* the name of the last call
    ret,                \* what the last call returned, as an Option
    moved,              \* the last call was a shift_to_front that took its
                        \* handle from a rank >= 1 to the front
    stale,              \* the handle whose element the last successful
                        \* remove took out; NoIndex before any
    pend,               \* the insertion a remove may undo: its handle and
                        \* value and what was observable before it
    scn                 \* how far the calls so far follow the scenario trace

vars == <<cutoff_positions, following_ind, list, panicked, input, op, ret,
          moved, stale, pend, scn>>

Self == [cutoff_positions |-> cutoff_positions,
         following_ind |-> following_ind, list |-> list]

SelfNext == [cutoff_positions |-> cutoff_positions',
             following_ind |-> following_ind', list |-> list']

\* handles a caller may pass: the empty one, every slot the bounds let the
\* arena allocate, and one that is never issued
Handles == 0..(MaxLen + 1)

RECURSIVE SeqsUpTo(_, _)
SeqsUpTo(S, n) ==
    IF n = 0 THEN {<< >>}
    ELSE LET T == SeqsUpTo(S, n - 1)
         IN T \cup {Append(t, x) : t \in {u \in T : Len(u) = n - 1}, x \in S}

\* arguments of new: every sequence within the bounds, sorted or not
CutoffInputs == SeqsUpTo(0..MaxCutoffVal, MaxCutoffs)

\* the handles met walking first_index / next_index up to the empty handle
RECURSIVE Walk(_, _, _)
Walk(self, ind, fuel) ==
    IF ind = NoIndex \/ fuel = 0 THEN << >>
    ELSE <<ind>> \o Walk(self, next_index(self, ind), fuel - 1)

get_indices(self) == Walk(self, first_index(self), Len(self.list.next) + 1)

LiveHandles(self) == {h \in Handles : get(self, h) # None}

\* the 0-based rank of handle h in the walk, -1 when the walk does not meet it
rank_of(self, h) ==
    LET ord == get_indices(self)
    IN IF \E p \in 1..Len(ord) : ord[p] = h
       THEN (CHOOSE p \in 1..Len(ord) : ord[p] = h) - 1
       ELSE 0 - 1

\* what a caller can observe of the object
Obs(self) ==
    LET ord == get_indices(self)
    IN [order |-> ord,
        values |-> [p \in 1..Len(ord) |-> get(self, ord[p])],
        counts |-> [p \in 1..Len(ord) |-> preceding_cutoffs(self, ord[p])],
        cache |-> [q \in 1..Len(self.cutoff_positions) |-> following_ind_at(self, q)],
        size |-> len(self)]

\* pend.stage is "inserted" right after an insertion, "undone" right after
\* the remove of the handle that insertion returned, and "none" otherwise
NoPend == [stage |-> "none"]

\* the scenario trace of the spec over cutoffs [0, 0, 2]: three insert_last
\* (of a, b and c, whose handles hs records), remove of a, shift_to_front
\* of c
ScenarioCutoffs == <<0, 0, 2>>

ScenarioOff == [step |-> 0 - 1, hs |-> << >>]

ScenarioStep(name, arg, r) ==
    IF scn.step \in 0..2 /\ name = "insert_last"
    THEN [step |-> scn.step + 1, hs |-> Append(scn.hs, r.ret)]
    ELSE IF scn.step = 3 /\ name = "remove" /\ arg = scn.hs[1]
    THEN [scn EXCEPT !.step = 4]
    ELSE IF scn.step = 4 /\ name = "shift_to_front" /\ arg = scn.hs[3]
    THEN [scn EXCEPT !.step = 5]
    ELSE ScenarioOff

Init ==
    \E c \in CutoffInputs :
        LET r == new(c)
        IN /\ cutoff_positions = r.self.cutoff_positions
           /\ following_ind = r.self.following_ind
           /\ list = r.self.list
           /\ panicked = r.panic
           /\ input = c
           /\ op = "new"
           /\ ret = None
           /\ moved = FALSE
           /\ stale = NoIndex
           /\ pend = NoPend
           /\ scn = IF c = ScenarioCutoffs /\ ~r.panic
                    THEN [step |-> 0, hs |-> << >>] ELSE ScenarioOff

\* the object and the history after the call name(arg) with result r
Apply(name, arg, r) ==
    /\ cutoff_positions' = r.self.cutoff_positions
    /\ following_ind' = r.self.following_ind
    /\ list' = r.self.list
    /\ panicked' = r.panic
    /\ input' = input
    /\ op' = name
    /\ scn' = IF r.panic THEN ScenarioOff ELSE ScenarioStep(name, arg, r)

InsertFirst(v) ==
    /\ ~panicked
    /\ len(Self) < MaxLen
    /\ LET r == insert_first(Self, v)
       IN /\ Apply("insert_first", v, r)
          /\ moved' = FALSE
          /\ ret' = IF r.panic THEN None ELSE Some(r.ret)
          /\ pend' = IF r.panic THEN NoPend
                     ELSE [stage |-> "inserted", ind |-> r.ret, value |-> v,
                           obs |-> Obs(Self)]
          /\ stale' = stale

InsertLast(v) ==
    /\ ~panicked
    /\ len(Self) < MaxLen
    /\ LET r == insert_last(Self, v)
       IN /\ Apply("insert_last", v, r)
          /\ moved' = FALSE
          /\ ret' = IF r.panic THEN None ELSE Some(r.ret)
          /\ pend' = IF r.panic THEN NoPend
                     ELSE [stage |-> "inserted", ind |-> r.ret, value |-> v,
                           obs |-> Obs(Self)]
          /\ stale' = stale

ShiftToFront(h) ==
    /\ ~panicked
    /\ LET r == shift_to_front(Self, h)
       IN /\ Apply("shift_to_front", h, r)
          /\ moved' = (~r.panic /\ rank_of(Self, h) >= 1)
          /\ ret' = None
          /\ pend' = NoPend
          /\ stale' = stale

Remove(h) ==
    /\ ~panicked
    /\ LET r == remove(Self, h)
       IN /\ Apply("remove", h, r)
          /\ moved' = FALSE
          /\ ret' = r.ret
          /\ pend' = IF pend.stage = "inserted" /\ pend.ind = h
                     THEN [pend EXCEPT !.stage = "undone"] ELSE NoPend
          /\ stale' = IF r.ret # None THEN h ELSE stale

Next ==
    \/ \E v \in Values : InsertFirst(v)
    \/ \E v \in Values : InsertLast(v)
    \/ \E h \in Handles : ShiftToFront(h)
    \/ \E h \in Handles : Remove(h)

Spec == Init /\ [][Next]_vars

\* ------------------------------------------------------------- properties
\* the cutoffs at or before 0-based rank p
CutoffsUpTo(p) ==
    Cardinality({q \in 1..Len(cutoff_positions) : cutoff_positions[q] <= p})

HasDuplicateCutoffs ==
    \E q \in 1..(Len(cutoff_positions) - 1) :
        cutoff_positions[q] = cutoff_positions[q + 1]

\* C1 (I1): after any sequence of calls on a list built from sorted
\* cutoffs, the element at 0-based rank p has preceding_cutoffs equal to
\* the number of cutoffs q with cutoff[q] <= p.
C1_PrecedingCutoffs ==
    LET ord == get_indices(Self)
    IN \A p \in 1..Len(ord) :
          preceding_cutoffs(Self, ord[p]) = Some(CutoffsUpTo(p - 1))

\* a remove has taken an element out of a list with coinciding cutoffs and
\* left at least two elements, the last of them past two cutoffs or more
C1_Witness ==
    LET ord == get_indices(Self)
    IN /\ op = "remove" /\ ret # None
       /\ HasDuplicateCutoffs
       /\ Len(ord) >= 2
       /\ preceding_cutoffs(Self, ord[Len(ord)]) \in {Some(2), Some(3)}
       /\ preceding_cutoffs(Self, ord[1]) # preceding_cutoffs(Self, ord[Len(ord)])

\* C2 (I2): after any sequence of calls, following_ind(q) is the handle of
\* the first element of rank >= cutoff[q], and the empty handle when there
\* is none.  (Cutoff q of the code is cutoff q + 1 here.)
C2_FollowingInd ==
    LET ord == get_indices(Self)
    IN \A q \in 1..Len(cutoff_positions) :
          following_ind_at(Self, q) =
             IF cutoff_positions[q] < Len(ord)
             THEN ord[cutoff_positions[q] + 1] ELSE NoIndex

\* a shift_to_front has left a list whose cache holds two different
\* handles and an empty entry
C2_Witness ==
    /\ op = "shift_to_front" /\ ~panicked
    /\ \E q1, q2, q3 \in 1..Len(cutoff_positions) :
          /\ following_ind_at(Self, q1) # NoIndex
          /\ following_ind_at(Self, q2) # NoIndex
          /\ following_ind_at(Self, q1) # following_ind_at(Self, q2)
          /\ following_ind_at(Self, q3) = NoIndex
    /\ first_index(Self) # NoIndex
    /\ stale # NoIndex

\* C3: shift_to_front(h) is a silent no-op when h is the first element and
\* when h denotes no live element: no panic, and order, values, counts,
\* cache and size are unchanged.
C3_ShiftNoOp ==
    [][\A h \in Handles :
          (ShiftToFront(h) /\ (h = first_index(Self) \/ get(Self, h) = None))
             => (~panicked' /\ Obs(SelfNext) = Obs(Self))]_vars

\* C4: remove(h) of a handle that denotes no live element returns None and
\* leaves order, size, counts and cache unchanged.
C4_RemoveAbsent ==
    [][\A h \in Handles :
          (Remove(h) /\ get(Self, h) = None)
             => (ret' = None /\ ~panicked' /\ Obs(SelfNext) = Obs(Self))]_vars

\* a remove has returned None on a non-empty list that has a freed slot
C4_Witness ==
    /\ op = "remove" /\ ret = None /\ ~panicked
    /\ len(Self) >= 1
    /\ stale # NoIndex /\ get(Self, stale) = None
    /\ \E q \in 1..Len(cutoff_positions) : following_ind_at(Self, q) # NoIndex

\* C5: once remove(h) has taken h's element out, h stays stale in every
\* later state, insertions that reuse the slot included: get(h) and
\* preceding_cutoffs(h) are None, remove(h) returns None and changes
\* nothing, shift_to_front(h) is a no-op.  Stated of stale, the handle the
\* last successful remove took out, in every state from that remove on.
C5_StaleStaysStale ==
    stale # NoIndex =>
       /\ get(Self, stale) = None
       /\ preceding_cutoffs(Self, stale) = None
       /\ LET r == remove(Self, stale)
          IN r.ret = None /\ ~r.panic /\ r.self = Self
       /\ LET r == shift_to_front(Self, stale)
          IN ~r.panic /\ r.self = Self

\* non-decreasing, said of every pair of positions
NonDecreasing(c) == \A i, j \in 1..Len(c) : i < j => c[i] <= c[j]

\* C6: new(cutoffs) panics exactly when cutoffs is not sorted
\* non-decreasing; for sorted cutoffs, duplicates included, it gives an
\* empty list (size 0, first_index empty) and a cache of len(cutoffs)
\* entries, all empty.
C6_New ==
    op = "new" =>
       /\ panicked <=> ~NonDecreasing(input)
       /\ ~panicked =>
             /\ len(Self) = 0
             /\ is_empty(Self)
             /\ first_index(Self) = NoIndex
             /\ Len(following_ind) = Len(input)
             /\ \A q \in 1..Len(input) : following_ind_at(Self, q) = NoIndex

\* new has built a list from cutoffs with a repeated value
C6_Witness ==
    /\ op = "new" /\ ~panicked
    /\ Len(input) >= 2
    /\ \E q \in 1..(Len(input) - 1) : input[q] = input[q + 1]

\* C7: len() is the number of live elements, the number of handles met
\* walking first_index / next_index up to the empty handle, and is_empty()
\* holds exactly when that number is 0.
C7_LenIsLiveCount ==
    LET n == Len(get_indices(Self))
    IN /\ len(Self) = n
       /\ n = Cardinality(LiveHandles(Self))
       /\ is_empty(Self) <=> n = 0

\* a remove has left elements in the list next to a freed slot
C7_Witness ==
    /\ op = "remove" /\ ret # None
    /\ Len(get_indices(Self)) >= 2
    /\ get(Self, stale) = None

\* C8: h = insert_first(v) or insert_last(v) followed at once by remove(h)
\* returns v, and order, values, counts, cache and size are as they were
\* before the insertion.
C8_RoundTrip ==
    pend.stage = "undone" =>
       /\ ~panicked
       /\ ret = Some(pend.value)
       /\ Obs(Self) = pend.obs

\* an insertion into a list of two or more with a non-empty cache entry has
\* been undone
C8_Witness ==
    /\ pend.stage = "undone"
    /\ Len(get_indices(Self)) >= 2
    /\ HasDuplicateCutoffs
    /\ \E q \in 1..Len(cutoff_positions) :
          /\ cutoff_positions[q] > 0
          /\ following_ind_at(Self, q) # NoIndex

\* C9: the scenario trace over cutoffs [0, 0, 2] (a, b, c are the handles
\* of the three insert_last calls; following_ind(q) of the trace is cutoff
\* q + 1 here).
C9_Scenario ==
    LET a == scn.hs[1]
        b == scn.hs[2]
        c == scn.hs[3]
    IN /\ scn.step = 1 =>
             /\ get_indices(Self) = <<a>>
             /\ preceding_cutoffs(Self, a) = Some(2)
             /\ following_ind_at(Self, 1) = a
             /\ following_ind_at(Self, 2) = a
             /\ following_ind_at(Self, 3) = NoIndex
       /\ scn.step = 2 =>
             /\ get_indices(Self) = <<a, b>>
             /\ preceding_cutoffs(Self, b) = Some(2)
             /\ following_ind_at(Self, 3) = NoIndex
       /\ scn.step = 3 =>
             /\ get_indices(Self) = <<a, b, c>>
             /\ preceding_cutoffs(Self, c) = Some(3)
             /\ following_ind_at(Self, 3) = c
       /\ scn.step = 4 =>
             /\ get_indices(Self) = <<b, c>>
             /\ following_ind_at(Self, 1) = b
             /\ following_ind_at(Self, 2) = b
             /\ preceding_cutoffs(Self, b) = Some(2)
             /\ preceding_cutoffs(Self, c) = Some(2)
             /\ following_ind_at(Self, 3) = NoIndex
       /\ scn.step = 5 =>
             /\ get_indices(Self) = <<c, b>>
             /\ preceding_cutoffs(Self, c) = Some(2)
             /\ preceding_cutoffs(Self, b) = Some(2)
             /\ following_ind_at(Self, 3) = NoIndex

\* the whole scenario trace has run
C9_Witness == scn.step = 5 /\ ~panicked /\ op = "shift_to_front"

\* C10: an insertion returns a handle that no live element has, and a live
\* handle h keeps its value across every call but remove(h).
C10_HandleStability ==
    [][/\ \A v \in Values :
             (InsertFirst(v) \/ InsertLast(v)) /\ ~panicked'
                => /\ ret' # None
                   /\ ret'[1] # NoIndex
                   /\ ret'[1] \notin LiveHandles(Self)
                   /\ get(SelfNext, ret'[1]) = Some(v)
       /\ \A h \in LiveHandles(Self) :
             Remove(h) \/ get(SelfNext, h) = get(Self, h)]_vars

\* an insertion has taken a freed slot while another element was live
C10_Witness ==
    /\ op \in {"insert_first", "insert_last"} /\ ret # None
    /\ ret[1] = stale
    /\ len(Self) >= 2

\* C11 (I3/I4): in every state of a list that new has built, the cutoffs
\* are the sequence passed to new, value by value and in the same order,
\* still sorted non-decreasing, and the cache has one entry per cutoff; as
\* this holds after every call, no call changes a length or a cutoff.
C11_CutoffsFixed ==
    ~(op = "new" /\ panicked) =>
       /\ cutoff_positions = input
       /\ NonDecreasing(cutoff_positions)
       /\ Len(following_ind) = Len(cutoff_positions)

\* each of the four calls has left a list over three cutoffs, two of them
\* coinciding, with an element in it
C11_Witness ==
    /\ op \in {"insert_first", "insert_last", "shift_to_front", "remove"}
    /\ ~panicked
    /\ Len(input) = 3 /\ HasDuplicateCutoffs
    /\ input[1] # input[3]
    /\ len(Self) >= 1
    /\ stale # NoIndex

\* C12: shift_to_front(h) of a live h at rank r >= 1 puts h at rank 0 and
\* the elements of ranks 0..r-1 at ranks 1..r in their former order; the
\* elements of ranks > r keep their rank and preceding_cutoffs, every cache
\* entry of a cutoff > r stays as it was, and len() is unchanged.
C12_ShiftToFront ==
    [][\A h \in LiveHandles(Self) :
          (op' = "shift_to_front" /\ rank_of(Self, h) >= 1 /\ ShiftToFront(h)) =>
             LET ord == get_indices(Self)
                 r == rank_of(Self, h)
                 ordN == get_indices(SelfNext)
             IN /\ ~panicked'
                /\ Len(ordN) = Len(ord)
                /\ ordN[1] = h
                /\ \A p \in 1..r : ordN[p + 1] = ord[p]
                /\ \A p \in (r + 2)..Len(ord) :
                      /\ ordN[p] = ord[p]
                      /\ preceding_cutoffs(SelfNext, ord[p])
                            = preceding_cutoffs(Self, ord[p])
                /\ \A q \in 1..Len(cutoff_positions) :
                      cutoff_positions[q] > r
                         => following_ind_at(SelfNext, q) = following_ind_at(Self, q)
                /\ len(SelfNext) = len(Self)]_vars

\* shift_to_front has moved an element to the front of a list of three,
\* over a cutoff at rank 1 and a cached cutoff at rank 2
C12_Witness ==
    /\ op = "shift_to_front" /\ ~panicked
    /\ moved /\ len(Self) = 3
    /\ \E q1, q2 \in 1..Len(cutoff_positions) :
          /\ cutoff_positions[q1] = 1
          /\ cutoff_positions[q2] = 2
          /\ following_ind_at(Self, q2) # NoIndex

\* the number of cutoffs of value 0; the cutoffs being sorted, the length
\* of their leading run of zeros
ZeroCutoffs ==
    Cardinality({q \in 1..Len(cutoff_positions) : cutoff_positions[q] = 0})

\* C13: insert_first(v) on a list of length n makes the new element the
\* one of rank 0, with preceding_cutoffs the number of leading zero
\* cutoffs; the cache entries of the zero cutoffs, and no others, become
\* the new handle; a non-empty entry of a cutoff >= 1 becomes the
\* predecessor of the element it pointed to; an empty entry of a cutoff
\* equal to n (>= 1, the zero cutoffs being told above) becomes the former
\* last element; every entry of a cutoff > n is left empty.
C13_InsertFirst ==
    [][\A v \in Values :
          (op' = "insert_first" /\ InsertFirst(v)) =>
             /\ ~panicked' /\ ret' # None
             /\ LET ord == get_indices(Self)
                    n == len(Self)
                    ordN == get_indices(SelfNext)
                    hN == ret'[1]
                IN /\ ordN = <<hN>> \o ord
                   /\ preceding_cutoffs(SelfNext, hN) = Some(ZeroCutoffs)
                   /\ \A q \in 1..Len(cutoff_positions) :
                         LET p == cutoff_positions[q]
                             old == following_ind_at(Self, q)
                             now == following_ind_at(SelfNext, q)
                         IN /\ (p = 0) <=> (now = hN)
                            /\ (p >= 1 /\ old # NoIndex)
                                  => now = ordN[rank_of(SelfNext, old)]
                            /\ (p >= 1 /\ old = NoIndex /\ p = n)
                                  => now = ord[n]
                            /\ (p > n) => (old = NoIndex /\ now = NoIndex)]_vars

\* insert_first has left a list of three over a zero cutoff, a cutoff whose
\* entry was moved back by one element, and a cutoff at the old length
\* whose entry is now the former last element
C13_Witness ==
    LET ord == get_indices(Self)
    IN /\ op = "insert_first" /\ ~panicked
       /\ Len(ord) = 3
       /\ \E q1, q2, q3 \in 1..Len(cutoff_positions) :
             /\ cutoff_positions[q1] = 0
             /\ cutoff_positions[q2] = 1
             /\ cutoff_positions[q3] = 2
             /\ following_ind_at(Self, q1) = ret[1]
             /\ following_ind_at(Self, q2) = ord[2]
             /\ following_ind_at(Self, q3) = ord[3]

\* C14: insert_last(v) on a list of length n gives the new element rank n
\* and preceding_cutoffs the number of cutoffs <= n; the cache entries of
\* the cutoffs equal to n go from empty to the new handle and no other
\* entry changes; no element already there changes rank, value or
\* preceding_cutoffs.
C14_InsertLast ==
    [][\A v \in Values :
          (op' = "insert_last" /\ InsertLast(v)) =>
             /\ ~panicked' /\ ret' # None
             /\ LET ord == get_indices(Self)
                    n == len(Self)
                    hN == ret'[1]
                IN /\ get_indices(SelfNext) = ord \o <<hN>>
                   /\ preceding_cutoffs(SelfNext, hN) = Some(CutoffsUpTo(n))
                   /\ \A p \in 1..n :
                         /\ get(SelfNext, ord[p]) = get(Self, ord[p])
                         /\ preceding_cutoffs(SelfNext, ord[p])
                               = preceding_cutoffs(Self, ord[p])
                   /\ \A q \in 1..Len(cutoff_positions) :
                         IF cutoff_positions[q] = n
                         THEN /\ following_ind_at(Self, q) = NoIndex
                              /\ following_ind_at(SelfNext, q) = hN
                         ELSE following_ind_at(SelfNext, q)
                                 = following_ind_at(Self, q)]_vars

\* insert_last has put an element at a rank >= 1 where two cutoffs
\* coincide, next to a cutoff before it and another element
C14_Witness ==
    /\ op = "insert_last" /\ ~panicked
    /\ len(Self) >= 2
    /\ \E q1, q2, q3 \in 1..Len(cutoff_positions) :
          /\ q1 # q2
          /\ cutoff_positions[q1] = len(Self) - 1
          /\ cutoff_positions[q2] = len(Self) - 1
          /\ following_ind_at(Self, q1) = ret[1]
          /\ following_ind_at(Self, q2) = ret[1]
          /\ cutoff_positions[q3] < len(Self) - 1
          /\ following_ind_at(Self, q3) \notin {NoIndex, ret[1]}

\* C15: remove(h) of a live h at rank r returns the value stored with h
\* and takes one off len(); the other elements keep their relative order;
\* the elements before rank r keep their preceding_cutoffs and the cache
\* entries of cutoffs < r stay as they were; every entry that pointed to h
\* points to h's former successor, or is empty if h was last.
C15_Remove ==
    [][\A h \in LiveHandles(Self) :
          (op' = "remove" /\ Remove(h)) =>
             LET ord == get_indices(Self)
                 r == rank_of(Self, h)
                 succ == IF r + 2 <= Len(ord) THEN ord[r + 2] ELSE NoIndex
             IN /\ ~panicked'
                /\ ret' = get(Self, h)
                /\ len(SelfNext) = len(Self) - 1
                /\ get_indices(SelfNext)
                      = SubSeq(ord, 1, r) \o SubSeq(ord, r + 2, Len(ord))
                /\ \A p \in 1..r :
                      preceding_cutoffs(SelfNext, ord[p])
                         = preceding_cutoffs(Self, ord[p])
                /\ \A q \in 1..Len(cutoff_positions) :
                      /\ cutoff_positions[q] < r
                            => following_ind_at(SelfNext, q)
                                  = following_ind_at(Self, q)
                      /\ following_ind_at(Self, q) = h
                            => following_ind_at(SelfNext, q) = succ]_vars

\* remove has returned a value and left two elements or more, two
\* coinciding cutoffs >= 1 with a cached handle, and an empty entry
C15_Witness ==
    /\ op = "remove" /\ ret # None /\ ~panicked
    /\ len(Self) >= 2
    /\ \E q1, q2, q3 \in 1..Len(cutoff_positions) :
          /\ q1 # q2
          /\ cutoff_positions[q1] >= 1
          /\ cutoff_positions[q1] = cutoff_positions[q2]
          /\ following_ind_at(Self, q1) # NoIndex
          /\ following_ind_at(Self, q3) = NoIndex

\* C16: no dangling cache reference.  In every state each non-empty cache
\* entry is the handle of a live element, and in the state right after a
\* remove(h) that returned a value no cache entry is h.
C16_NoDanglingCache ==
    /\ \A q \in 1..Len(cutoff_positions) :
          following_ind_at(Self, q) # NoIndex
             => following_ind_at(Self, q) \in LiveHandles(Self)
    /\ (op = "remove" /\ ret # None)
          => \A q \in 1..Len(cutoff_positions) :
                following_ind_at(Self, q) # stale

\* remove has taken out an element and every cutoff of the list still has
\* a cached handle
C16_Witness ==
    /\ op = "remove" /\ ret # None /\ ~panicked
    /\ Len(cutoff_positions) >= 2
    /\ \A q \in 1..Len(cutoff_positions) : following_ind_at(Self, q) # NoIndex
    /\ \E q \in 1..Len(cutoff_positions) : cutoff_positions[q] >= 1

\* C17: the empty cache entries form a suffix: if following_ind(q) is
\* empty, so is following_ind(q') for every q' > q in range.  (Hence the
\* forward scan of remove, which stops at the first empty entry, passes
\* over no entry it would have to adjust.)
C17_EmptySuffix ==
    \A q1, q2 \in 1..Len(cutoff_positions) :
       (q1 < q2 /\ following_ind_at(Self, q1) = NoIndex)
          => following_ind_at(Self, q2) = NoIndex

\* remove has left a cache of three entries: one on an element, and after
\* it two empty ones of different cutoffs
C17_Witness ==
    /\ op = "remove" /\ ret # None /\ ~panicked
    /\ Len(cutoff_positions) = 3
    /\ following_ind_at(Self, 1) # NoIndex
    /\ following_ind_at(Self, 2) = NoIndex
    /\ following_ind_at(Self, 3) = NoIndex
    /\ cutoff_positions[2] # cutoff_positions[3]

\* C18: for every live element h, of preceding_cutoffs c, the cutoffs q
\* with following_ind(q) = h are exactly those whose value is h's rank;
\* they form one contiguous run which, when not empty, ends at the code's
\* index c - 1 (cutoff c here).  (Hence the backward scan of remove from
\* c - 1 down, which stops at the first other entry, meets every entry on
\* h.)
C18_RunEndsAtCount ==
    \A h \in LiveHandles(Self) :
       LET run == {q \in 1..Len(cutoff_positions) : following_ind_at(Self, q) = h}
           c == preceding_cutoffs(Self, h)[1]
       IN /\ run = {q \in 1..Len(cutoff_positions) :
                      cutoff_positions[q] = rank_of(Self, h)}
          /\ run # {} =>
                /\ c \in run
                /\ \A q \in run : q <= c
                /\ \A q \in 1..Len(cutoff_positions) :
                      (\E q1 \in run : q1 <= q /\ q <= c) => q \in run

\* remove has left an element past three cutoffs, the last two of them
\* cached on it and the first on another element
C18_Witness ==
    /\ op = "remove" /\ ret # None /\ ~panicked
    /\ \E h \in LiveHandles(Self) :
          /\ preceding_cutoffs(Self, h) = Some(3)
          /\ following_ind_at(Self, 3) = h
          /\ following_ind_at(Self, 2) = h
          /\ following_ind_at(Self, 1) \notin {h, NoIndex}

\* C19: on a list built from sorted cutoffs, coinciding ones included, no
\* assertion or unwrap of insert_first, insert_last, or of shift_to_front
\* and remove given a live handle, fails (each is a panic branch of the
\* handler).  The asserted facts hold before every call: a non-empty cache
\* entry has a cutoff < len and an empty one a cutoff >= len (so an empty
\* entry of a cutoff other than len has a cutoff > len, and every entry
\* from the first cutoff equal to len on is empty); for a live h, every
\* entry of index in [leading_zeros, preceding_cutoffs(h)) is non-empty and
\* its element has a predecessor.  Said of every state a call can start
\* from, and of the result of each call the state machine can make there.
C19_NoInternalPanic ==
    ~panicked =>
       /\ \A q \in 1..Len(cutoff_positions) :
             /\ following_ind_at(Self, q) # NoIndex
                   => cutoff_positions[q] < len(Self)
             /\ following_ind_at(Self, q) = NoIndex
                   => cutoff_positions[q] >= len(Self)
       /\ \A h \in LiveHandles(Self) :
             /\ \A q \in (count_leading_zeros(Self) + 1)
                            ..preceding_cutoffs(Self, h)[1] :
                   /\ following_ind_at(Self, q) # NoIndex
                   /\ rank_of(Self, following_ind_at(Self, q)) >= 1
             /\ ~shift_to_front(Self, h).panic
             /\ ~remove(Self, h).panic
       /\ len(Self) < MaxLen =>
             \A v \in Values :
                ~insert_first(Self, v).panic /\ ~insert_last(Self, v).panic

\* shift_to_front has moved an element of a list of three over coinciding
\* cutoffs, a zero cutoff among them, after an earlier remove
C19_Witness ==
    /\ op = "shift_to_front" /\ moved /\ ~panicked
    /\ len(Self) = 3
    /\ HasDuplicateCutoffs
    /\ ZeroCutoffs >= 1
    /\ stale # NoIndex

\* the number of cutoffs of value p
CutoffsAt(p) ==
    Cardinality({q \in 1..Len(cutoff_positions) : cutoff_positions[q] = p})

\* the one iteration more that a scan takes to meet a cutoff > p and stop
StopAfter(p) == IF CutoffsUpTo(p) < Len(cutoff_positions) THEN 1 ELSE 0

\* the loops of insert_first, of shift_to_front and of remove run no more
\* iterations than there are cutoffs, whatever the length of the list
OtherLoopsBounded ==
    /\ len(Self) < MaxLen
          => insert_first_iterations(Self) <= Len(cutoff_positions)
    /\ \A h \in LiveHandles(Self) :
          /\ shift_to_front_iterations(Self, h) <= Len(cutoff_positions)
          /\ remove_iterations(Self, h) <= Len(cutoff_positions)

\* C20 as stated: the loops of every call run a number of iterations
\* bounded by the number of cutoffs, and those of insert_last a number
\* proportional to the number of cutoffs equal to the old length n: each
\* of its two loops passes once over those cutoffs and takes at most one
\* iteration more to stop.
C20_AsStated ==
    ~panicked =>
       /\ OtherLoopsBounded
       /\ len(Self) < MaxLen
             => insert_last_iterations(Self) <= 2 * CutoffsAt(len(Self)) + 2

\* C20, amended: every call ends, and the loops of insert_first, of
\* shift_to_front and of remove run at most as many iterations as there
\* are cutoffs; the counting loop of insert_last passes over every cutoff
\* <= n, and one more if there is one, and its second loop, run when some
\* cutoff equals n, over the cutoffs equal to n, and one more if there is
\* one: at most twice the number of cutoffs, and not a number proportional
\* to that of the cutoffs equal to n.
C20_IterationBounds ==
    ~panicked =>
       /\ OtherLoopsBounded
       /\ len(Self) < MaxLen =>
             LET n == len(Self)
             IN /\ insert_last_iterations(Self)
                      = CutoffsUpTo(n) + StopAfter(n)
                        + (IF CutoffsAt(n) > 0
                           THEN CutoffsAt(n) + StopAfter(n) ELSE 0)
                /\ insert_last_iterations(Self) <= 2 * Len(cutoff_positions)
                /\ \A v \in Values : ~insert_last(Self, v).panic

\* insert_last has returned from a list of two elements over three
\* cutoffs, all below 2 and so none equal to the old length: its counting
\* loop ran three iterations
C20_Witness ==
    /\ ~panicked /\ op = "insert_last"
    /\ len(Self) = 3 /\ Len(cutoff_positions) = 3
    /\ CutoffsAt(len(Self) - 1) = 0
    /\ CutoffsUpTo(len(Self) - 1) = 3
    /\ insert_last_count_iterations(cutoff_positions, 1, len(Self) - 1) = 3

====
